---- MODULE Spec2Model ----
(***************************************************************************)
(* Musical Theater CrewAI API: the roster builder (crew_definitions.py)    *)
(* and the HTTP facade (main.py).                                          *)
(*                                                                         *)
(* Text values (str) are sequences of tokens, so that f-string             *)
(* concatenation is \o and "detail contains message" is a real             *)
(* sub-sequence test.  Python objects built by Agent(...) / Task(...) get  *)
(* an identity drawn from a process-wide allocation counter; a Task holds  *)
(* a reference (the identity) of its agent.                                *)
(***************************************************************************)
EXTENDS Integers, Sequences, FiniteSets, TLC

\* ---------------------------------------------------------------- bounds
MaxRequests == 2    \* POST /trigger-crew requests the clients send
MaxClock == 1       \* ticks of the event loop's monotonic clock

Requests == 1..MaxRequests

VARIABLES
    env,         \* os.environ: key -> [present, value]; read, never written
    clock,       \* asyncio.get_event_loop().time(), monotonic
    objects,      \* identities handed out so far to Agent / Task objects
    pc,          \* per request: "idle", "deps", "awaiting", "done"
    body,        \* per request: the JSON body received
    calls,       \* per request: the functions its handling has called, in order
    crew,        \* per request: local `crew` of trigger_crew
    start_time,  \* per request: local `start_time` of trigger_crew
    inputs,      \* per request: local `inputs`, handed to kickoff_async
    outcome,     \* per request: what roster construction / the engine run did
    response,    \* per request: the HTTP response sent
    health       \* the last answer of GET /

vars == << env, clock, objects, pc, body, calls, crew, start_time, inputs,
           outcome, response, health >>

\* ------------------------------------------------------------ text helpers
\* sub occurs in s as a contiguous run of tokens (Python's `sub in s`)
Contains(s, sub) ==
    \E i \in 0..(Len(s) - Len(sub)) :
        \A j \in 1..Len(sub) : s[i + j] = sub[j]

RECURSIVE Join(_, _)
\* sep.join(parts) for a list of single-token strings
Join(parts, sep) ==
    IF parts = <<>> THEN <<>>
    ELSE IF Len(parts) = 1 THEN <<Head(parts)>>
    ELSE <<Head(parts), sep>> \o Join(Tail(parts), sep)

RECURSIVE SelectMissing(_, _)
\* [key for key in keys if not os.getenv(key)]
SelectMissing(keys, environ) ==
    IF keys = <<>> THEN <<>>
    ELSE LET k == Head(keys)
             \* os.getenv(k): None when unset, else the value; `not v` is
             \* true for None and for the empty string
             v == environ[k]
             falsy == ~v.present \/ v.value = <<>>
         IN  (IF falsy THEN <<k>> ELSE <<>>) \o SelectMissing(Tail(keys), environ)

\* ------------------------------------------------- crew_definitions.py data
roles ==
    << "Composer + Lyricist", "Book", "Director", "Choreographer",
       "Set/Visual", "Dramaturg", "Market/Producer" >>

task_templates ==
    [ role \in { roles[i] : i \in 1..Len(roles) } |->
        CASE role = "Composer + Lyricist" ->
               << <<"Compose new songs", "Sheet music and lyrics for all songs">>,
                  <<"Develop musical themes", "Musical motifs for characters and scenes">>,
                  <<"Create vocal arrangements", "Detailed vocal arrangements for ensemble">> >>
          [] role = "Book" ->
               << <<"Draft storyline", "Complete first draft of the book">>,
                  <<"Character development", "Detailed character backgrounds and arcs">>,
                  <<"Scene structure", "Scene-by-scene breakdown with transitions">> >>
          [] role = "Director" ->
               << <<"Review creative inputs", "Provide feedback on creative direction">>,
                  <<"Vision development", "Comprehensive production vision document">>,
                  <<"Staging concepts", "Initial staging plans for key scenes">> >>
          [] role = "Choreographer" ->
               << <<"Develop choreography", "Choreography plans for musical numbers">>,
                  <<"Movement patterns", "Character-specific movement guidelines">>,
                  <<"Dance arrangements", "Dance break arrangements for ensemble numbers">> >>
          [] role = "Set/Visual" ->
               << <<"Design set sketches", "Mood boards and initial sketches">>,
                  <<"Technical requirements", "Technical specifications for set pieces">>,
                  <<"Visual continuity", "Scene transition and visual flow plans">> >>
          [] role = "Dramaturg" ->
               << <<"Check continuity", "A list of suggested storyline adjustments">>,
                  <<"Historical research", "Period-specific reference materials">>,
                  <<"Theme analysis", "Analysis of major themes and motifs">> >>
          [] role = "Market/Producer" ->
               << <<"Analyze market trends", "Market analysis report">>,
                  <<"Budget planning", "Initial budget breakdown">>,
                  <<"Marketing strategy", "Marketing and promotion plan">> >> ]

role_descriptions ==
    [ role \in { roles[i] : i \in 1..Len(roles) } |->
        CASE role = "Composer + Lyricist" ->
               [ goal |-> "Create compelling musical numbers and lyrics that advance the story",
                 backstory |-> "You are an experienced composer and lyricist with a deep understanding of musical theater conventions and the ability to create memorable melodies and meaningful lyrics." ]
          [] role = "Book" ->
               [ goal |-> "Develop a coherent and engaging narrative structure",
                 backstory |-> "You are a skilled playwright with experience in crafting compelling stories and developing rich characters for musical theater." ]
          [] role = "Director" ->
               [ goal |-> "Unify the creative vision and guide the overall production",
                 backstory |-> "You are a seasoned director with expertise in bringing together various theatrical elements into a cohesive whole." ]
          [] role = "Choreographer" ->
               [ goal |-> "Create dynamic movement that enhances the storytelling",
                 backstory |-> "You are an innovative choreographer who specializes in creating movement that serves both the story and the music." ]
          [] role = "Set/Visual" ->
               [ goal |-> "Design compelling visual environments that support the narrative",
                 backstory |-> "You are a creative designer with experience in creating immersive theatrical environments that enhance storytelling." ]
          [] role = "Dramaturg" ->
               [ goal |-> "Ensure historical accuracy and narrative consistency",
                 backstory |-> "You are a meticulous researcher and story expert who helps maintain the integrity of the production." ]
          [] role = "Market/Producer" ->
               [ goal |-> "Develop effective marketing strategies and manage production resources",
                 backstory |-> "You are an experienced producer with a strong understanding of theater marketing and production management." ] ]

\* the default of role_descriptions.get(role, {...})
default_role_info ==
    [ goal |-> "Contribute to the overall success of the production",
      backstory |-> "You are a theater professional with expertise in your specific domain." ]

\* dict.get(key, default) on one of the static tables
DictGet(d, key, default) == IF key \in DOMAIN d THEN d[key] ELSE default

\* A dict built at run time is its list of <<key, value>> items in insertion
\* order.  d[key] = value: an existing key keeps its place and takes the new
\* value, a new key is appended.
MappingSet(d, key, value) ==
    IF \E i \in 1..Len(d) : d[i][1] = key
    THEN [ i \in 1..Len(d) |-> IF d[i][1] = key THEN <<key, value>> ELSE d[i] ]
    ELSE Append(d, <<key, value>>)

RECURSIVE MappingUpdate(_, _)
\* d.update(items), item by item
MappingUpdate(d, items) ==
    IF items = <<>> THEN d
    ELSE MappingUpdate(MappingSet(d, Head(items)[1], Head(items)[2]), Tail(items))

MappingHas(d, key) == \E i \in 1..Len(d) : d[i][1] = key

\* d[key], for a key d has
MappingGet(d, key) == d[CHOOSE i \in 1..Len(d) : d[i][1] = key][2]

\* ------------------------------------------------ crew_definitions.py code
\* a memoised agent: one object per role for the whole process
create_agent_for_role_cached(role, id) ==
    LET role_info == DictGet(role_descriptions, role, default_role_info)
    IN  [ id |-> 0 - (CHOOSE i \in 1..Len(roles) : roles[i] = role),
          role |-> role,
          goal |-> role_info.goal,
          backstory |-> role_info.backstory,
          verbose |-> TRUE,
          allow_delegation |-> TRUE ]

\* Agent(role=..., goal=..., backstory=..., verbose=True, allow_delegation=True);
\* id is the identity of the new object
create_agent_for_role(role, id) ==
    LET role_info == DictGet(role_descriptions, role, default_role_info)
    IN  [ id |-> id,
          role |-> role,
          goal |-> role_info.goal,
          backstory |-> role_info.backstory,
          verbose |-> TRUE,
          allow_delegation |-> TRUE ]

\* description and expected_output unpacked the wrong way round
create_task_for_role_swapped(agent, task_desc, id) ==
    [ id |-> id,
      description |-> task_desc[2],
      expected_output |-> task_desc[1],
      agent |-> agent.id ]

\* description, expected_output = task_desc; Task(..., agent=agent)
create_task_for_role(agent, task_desc, id) ==
    [ id |-> id,
      description |-> task_desc[1],
      expected_output |-> task_desc[2],
      agent |-> agent.id ]

\* The loops carry their state (the lists built so far and the allocation
\* counter) in one record.  Each pass binds the state it hands on as a value
\* (a bound variable of a one-element set) so that TLC computes it once.

RECURSIVE RoleTaskLoop(_, _, _)
\* the inner loop: for task_desc in role_tasks: tasks.append(create_task_for_role(...))
RoleTaskLoop(agent, role_tasks, acc) ==
    IF role_tasks = <<>> THEN acc
    ELSE CHOOSE out \in
            { RoleTaskLoop(agent, Tail(role_tasks), next) :
                next \in { [ acc EXCEPT
                    !.tasks = Append(acc.tasks,
                                create_task_for_role(agent, Head(role_tasks), acc.heap + 1)),
                    !.heap = acc.heap + 1 ] } } : TRUE

RECURSIVE RoleLoop(_, _)
\* the outer loop: for role in crew_manager.roles: agent = ...; agents.append(agent);
\* role_tasks = crew_manager.task_templates.get(role, []); the inner loop
RoleLoop(rs, acc) ==
    IF rs = <<>> THEN acc
    ELSE CHOOSE out \in
            { RoleLoop(Tail(rs), next) :
                next \in { RoleTaskLoop(a, DictGet(task_templates, Head(rs), <<>>),
                                        [ acc EXCEPT !.agents = Append(acc.agents, a),
                                                     !.heap = acc.heap + 1 ]) :
                           a \in { create_agent_for_role(Head(rs), acc.heap + 1) } } } : TRUE

\* agents = []; tasks = []
EmptyRoster(heap) == [ agents |-> <<>>, tasks |-> <<>>, heap |-> heap ]

\* the reverse of a list
RECURSIVE Reversed(_)
Reversed(s) == IF s = <<>> THEN <<>> ELSE Append(Reversed(Tail(s)), Head(s))

\* the roles walked back to front
create_musical_theater_crew_reversed(production_name, heap) ==
    CHOOSE out \in
        { [ crew |-> [ agents |-> built.agents, tasks |-> built.tasks,
                       verbose |-> 2, process |-> "sequential" ],
            heap |-> built.heap ] :
          built \in { RoleLoop(Reversed(roles), EmptyRoster(heap)) } } : TRUE

\* Crew(agents=agents, tasks=tasks, verbose=2, process=Process.sequential);
\* heap is the allocation counter before the call, .heap the one after it
create_musical_theater_crew(production_name, heap) ==
    CHOOSE out \in
        { [ crew |-> [ agents |-> built.agents, tasks |-> built.tasks,
                       verbose |-> 2, process |-> "sequential" ],
            heap |-> built.heap ] :
          built \in { RoleLoop(roles, EmptyRoster(heap)) } } : TRUE

\* ------------------------------------------------------------- main.py
required_keys == << "OPENAI_API_KEY" >>

\* the dependency lets every request through
verify_api_keys_unchecked(environ) ==
    [ ok |-> TRUE, detail |-> <<>> ]

\* ok: returned True; otherwise raised HTTPException(500, detail)
verify_api_keys(environ) ==
    LET missing_keys == SelectMissing(required_keys, environ)
        error_msg == << "Missing required environment variables: " >>
                        \o Join(missing_keys, ", ")
    IN  IF missing_keys # <<>>
        THEN [ ok |-> FALSE, detail |-> error_msg ]
        ELSE [ ok |-> TRUE, detail |-> <<>> ]

\* a JSON body field: present or not, and its value
Absent == [ present |-> FALSE, value |-> <<>> ]
Some(v) == [ present |-> TRUE, value |-> v ]

\* the model also insists on a non-empty name
CrewRequestNonEmpty(json) ==
    IF ~json.production_name.present \/ json.production_name.value = <<>>
    THEN [ valid |-> FALSE, production_name |-> <<>>, additional_context |-> <<>> ]
    ELSE [ valid |-> TRUE,
           production_name |-> json.production_name.value,
           additional_context |-> IF json.additional_context.present
                                  THEN json.additional_context.value ELSE <<>> ]

\* CrewRequest: production_name is a required str (Field(...)),
\* additional_context defaults to {}
CrewRequest(json) ==
    IF ~json.production_name.present
    THEN [ valid |-> FALSE, production_name |-> <<>>, additional_context |-> <<>> ]
    ELSE [ valid |-> TRUE,
           production_name |-> json.production_name.value,
           additional_context |-> IF json.additional_context.present
                                  THEN json.additional_context.value ELSE <<>> ]

\* the response no request has yet
NoResponse == [ status_code |-> 0 ]

HTTPException(status_code, detail) ==
    [ status_code |-> status_code, detail |-> detail ]

\* the 422 the framework answers when the body does not fit CrewRequest
RequestValidationError ==
    [ status_code |-> 422, detail |-> << "production_name", "field required" >> ]

CrewResponse(result, execution_time) ==
    [ status_code |-> 200, result |-> result, execution_time |-> execution_time ]

\* {"production_name": request.production_name, **request.additional_context}
MergeInputs(production_name, additional_context) ==
    MappingUpdate(<< <<"production_name", production_name>> >>, additional_context)

\* the subtraction the wrong way round
ExecutionTimeSwapped(started, now) == started - now

\* asyncio.get_event_loop().time() - start_time
ExecutionTime(started, now) == now - started

\* a fixed detail that leaves the message out
ExecutionErrorDetailGeneric(message) ==
    << "An error occurred during CrewAI execution" >>

\* f"An error occurred during CrewAI execution: {str(e)}"
ExecutionErrorDetail(message) ==
    << "An error occurred during CrewAI execution: " >> \o message

\* a health check that reports on the configuration
root_checks_environment ==
    [ status |-> IF SelectMissing(required_keys, env) = <<>> THEN "ok" ELSE "error",
      message |-> "Musical Theater CrewAI API is running" ]

\* GET /
root ==
    [ status |-> "ok", message |-> "Musical Theater CrewAI API is running" ]

\* ------------------------------------------------------------ the service
\* what the clients and the engine can supply
EnvValues == { Absent, Some(<<>>), Some(<< "sk-test" >>) }
Names == { Absent, Some(<<>>), Some(<< "Test", " ", "Show" >>) }
Contexts ==
    { Absent,
      Some(<< << "genre", << "jazz" >> >>, << "production_name", << "Other" >> >> >>) }
JsonBodies == [ production_name : Names, additional_context : Contexts ]
EngineResults == { << "OK" >>, <<>> }
Messages == { << "boom" >>, << "rate", " ", "limit" >> }

NoBody == [ production_name |-> Absent, additional_context |-> Absent ]
NoCrew == [ agents |-> <<>>, tasks |-> <<>>, verbose |-> 0, process |-> "none" ]
NoOutcome == [ kind |-> "none", value |-> <<>>, began |-> 0, ended |-> 0 ]

Init ==
    /\ env \in [ { required_keys[i] : i \in 1..Len(required_keys) } -> EnvValues ]
    /\ clock = 0
    /\ objects = 0
    /\ pc = [ r \in Requests |-> "idle" ]
    /\ body = [ r \in Requests |-> NoBody ]
    /\ calls = [ r \in Requests |-> <<>> ]
    /\ crew = [ r \in Requests |-> NoCrew ]
    /\ start_time = [ r \in Requests |-> 0 ]
    /\ inputs = [ r \in Requests |-> <<>> ]
    /\ outcome = [ r \in Requests |-> NoOutcome ]
    /\ response = [ r \in Requests |-> NoResponse ]
    /\ health = [ served |-> FALSE, response |-> [ status |-> "", message |-> "" ] ]

\* a client sends POST /trigger-crew; the framework starts on the
\* dependency, which runs off the loop
Receive(r, json) ==
    /\ pc[r] = "idle"
    /\ pc' = [ pc EXCEPT ![r] = "deps" ]
    /\ body' = [ body EXCEPT ![r] = json ]
    /\ UNCHANGED << env, clock, objects, calls, crew, start_time, inputs,
                    outcome, response, health >>

\* The request object and the locals of trigger_crew live as long as the
\* handling of the request: once the response is sent they are gone, and
\* what stays is the calls made, what the engine did and the response.

\* Depends(verify_api_keys) raises: the handler body never runs
MissingKeyError(r) ==
    /\ pc[r] = "deps"
    /\ ~verify_api_keys(env).ok
    /\ calls' = [ calls EXCEPT ![r] = << "verify_api_keys" >> ]
    /\ response' = [ response EXCEPT ![r] =
                        HTTPException(500, verify_api_keys(env).detail) ]
    /\ pc' = [ pc EXCEPT ![r] = "done" ]
    /\ body' = [ body EXCEPT ![r] = NoBody ]
    /\ UNCHANGED << env, clock, objects, crew, start_time, inputs, outcome, health >>

\* the dependency passed, the body does not fit CrewRequest
RejectBody(r) ==
    /\ pc[r] = "deps"
    /\ verify_api_keys(env).ok
    /\ ~CrewRequest(body[r]).valid
    /\ calls' = [ calls EXCEPT ![r] = << "verify_api_keys" >> ]
    /\ response' = [ response EXCEPT ![r] = RequestValidationError ]
    /\ pc' = [ pc EXCEPT ![r] = "done" ]
    /\ body' = [ body EXCEPT ![r] = NoBody ]
    /\ UNCHANGED << env, clock, objects, crew, start_time, inputs, outcome, health >>

\* trigger_crew up to `await crew.kickoff_async(inputs=inputs)`
TriggerCrewStart(r) ==
    /\ pc[r] = "deps"
    /\ verify_api_keys(env).ok
    /\ CrewRequest(body[r]).valid
    /\ \E request \in { CrewRequest(body[r]) } :
         \E built \in { create_musical_theater_crew(request.production_name, objects) } :
           /\ crew' = [ crew EXCEPT ![r] = built.crew ]
           /\ objects' = built.heap
           /\ start_time' = [ start_time EXCEPT ![r] = clock ]
           /\ inputs' = [ inputs EXCEPT ![r] =
                   MergeInputs(request.production_name, request.additional_context) ]
    /\ calls' = [ calls EXCEPT ![r] =
            << "verify_api_keys", "create_musical_theater_crew", "kickoff_async" >> ]
    /\ outcome' = [ outcome EXCEPT ![r] =
            [ kind |-> "running", value |-> <<>>, began |-> clock, ended |-> 0 ] ]
    /\ pc' = [ pc EXCEPT ![r] = "awaiting" ]
    /\ UNCHANGED << env, clock, body, response, health >>

\* trigger_crew when create_musical_theater_crew raises (Agent, Task and
\* Crew are the engine's constructors): except Exception -> 500
TriggerCrewCreateRaises(r, message) ==
    /\ pc[r] = "deps"
    /\ verify_api_keys(env).ok
    /\ CrewRequest(body[r]).valid
    /\ calls' = [ calls EXCEPT ![r] =
            << "verify_api_keys", "create_musical_theater_crew" >> ]
    /\ outcome' = [ outcome EXCEPT ![r] =
            [ kind |-> "create_raised", value |-> message, began |-> 0, ended |-> 0 ] ]
    /\ response' = [ response EXCEPT ![r] =
            HTTPException(500, ExecutionErrorDetail(message)) ]
    /\ pc' = [ pc EXCEPT ![r] = "done" ]
    /\ body' = [ body EXCEPT ![r] = NoBody ]
    /\ UNCHANGED << env, clock, objects, crew, start_time, inputs, health >>

\* the awaited run returns: trigger_crew from the await to its return
EngineReturns(r, result) ==
    /\ pc[r] = "awaiting"
    /\ outcome' = [ outcome EXCEPT ![r] =
            [ kind |-> "returned", value |-> result,
              began |-> outcome[r].began, ended |-> clock ] ]
    /\ response' = [ response EXCEPT ![r] =
            CrewResponse(result, ExecutionTime(start_time[r], clock)) ]
    /\ pc' = [ pc EXCEPT ![r] = "done" ]
    /\ body' = [ body EXCEPT ![r] = NoBody ]
    /\ crew' = [ crew EXCEPT ![r] = NoCrew ]
    /\ start_time' = [ start_time EXCEPT ![r] = 0 ]
    /\ inputs' = [ inputs EXCEPT ![r] = <<>> ]
    /\ UNCHANGED << env, clock, objects, calls, health >>

\* the handler calls kickoff_async again when the run raised
EngineRaisesRetry(r, message) ==
    /\ pc[r] = "awaiting"
    /\ Len(calls[r]) < 5
    /\ calls' = [ calls EXCEPT ![r] = Append(calls[r], "kickoff_async") ]
    /\ UNCHANGED << env, clock, objects, pc, body, crew, start_time, inputs,
                    outcome, response, health >>

\* the awaited run raises: except Exception -> 500, nothing is retried
EngineRaises(r, message) ==
    /\ pc[r] = "awaiting"
    /\ outcome' = [ outcome EXCEPT ![r] =
            [ kind |-> "raised", value |-> message, began |-> 0, ended |-> 0 ] ]
    /\ response' = [ response EXCEPT ![r] =
            HTTPException(500, ExecutionErrorDetail(message)) ]
    /\ pc' = [ pc EXCEPT ![r] = "done" ]
    /\ body' = [ body EXCEPT ![r] = NoBody ]
    /\ crew' = [ crew EXCEPT ![r] = NoCrew ]
    /\ start_time' = [ start_time EXCEPT ![r] = 0 ]
    /\ inputs' = [ inputs EXCEPT ![r] = <<>> ]
    /\ UNCHANGED << env, clock, objects, calls, health >>

\* a client sends GET /
Root ==
    /\ health' = [ served |-> TRUE, response |-> root ]
    /\ UNCHANGED << env, clock, objects, pc, body, calls, crew, start_time,
                    inputs, outcome, response >>

\* time passes on the loop's clock
Tick ==
    /\ clock < MaxClock
    /\ clock' = clock + 1
    /\ UNCHANGED << env, objects, pc, body, calls, crew, start_time, inputs,
                    outcome, response, health >>

Next ==
    \/ \E r \in Requests, json \in JsonBodies : Receive(r, json)
    \/ \E r \in Requests : MissingKeyError(r)
    \/ \E r \in Requests : RejectBody(r)
    \/ \E r \in Requests : TriggerCrewStart(r)
    \/ \E r \in Requests, message \in Messages : TriggerCrewCreateRaises(r, message)
    \/ \E r \in Requests, result \in EngineResults : EngineReturns(r, result)
    \/ \E r \in Requests, message \in Messages : EngineRaises(r, message)
    \/ Root
    \/ Tick

Spec == Init /\ [][Next]_vars

\* ------------------------------------------------------------- properties
Count(seq, x) == Cardinality({ i \in 1..Len(seq) : seq[i] = x })
Called(r, f) == Count(calls[r], f) > 0
KeyAbsent == \A i \in 1..Len(required_keys) : ~env[required_keys[i]].present
KeyUsable == verify_api_keys(env).ok

\* C1: while OPENAI_API_KEY is absent, a handled POST /trigger-crew request
\* has ended with a 500 whose detail names OPENAI_API_KEY, and for no request
\* has create_musical_theater_crew or kickoff_async been called.
C1_MissingKeyFailsBeforeRoster ==
    KeyAbsent =>
        \A r \in Requests :
            /\ ~Called(r, "create_musical_theater_crew")
            /\ ~Called(r, "kickoff_async")
            /\ crew[r] = NoCrew
            /\ outcome[r] = NoOutcome
            /\ pc[r] \in { "idle", "deps", "done" }
            /\ pc[r] = "done" =>
                  /\ response[r].status_code = 500
                  /\ Contains(response[r].detail, << "OPENAI_API_KEY" >>)

C1_Witness ==
    /\ KeyAbsent
    /\ \E r \in Requests :
          /\ pc[r] = "done"
          /\ calls[r] = << "verify_api_keys" >>
          /\ response[r].status_code = 500

\* C2: a request whose engine run returned answers 200 with result equal to
\* the value the engine returned and execution_time >= 0, the clock at the
\* run's end minus the clock at its start.
C2_SuccessCarriesResultAndTime ==
    \A r \in Requests :
        (pc[r] = "done" /\ outcome[r].kind = "returned") =>
            /\ response[r].status_code = 200
            /\ response[r].result = outcome[r].value
            /\ response[r].execution_time >= 0
            /\ response[r].execution_time = outcome[r].ended - outcome[r].began

C2_Witness ==
    \E r \in Requests :
        /\ pc[r] = "done"
        /\ outcome[r].kind = "returned"
        /\ outcome[r].value = << "OK" >>
        /\ outcome[r].ended > outcome[r].began
        /\ response[r].status_code = 200

\* C3: a request that passed the key check and whose roster construction or
\* engine run raised ends with a 500 whose detail contains the exception's
\* message, and carries neither result nor execution_time.
C3_RaisedBecomes500WithMessage ==
    \A r \in Requests :
        outcome[r].kind \in { "create_raised", "raised" } =>
            /\ pc[r] = "done"
            /\ Called(r, "verify_api_keys")
            /\ response[r].status_code = 500
            /\ Contains(response[r].detail, outcome[r].value)
            /\ "result" \notin DOMAIN response[r]
            /\ "execution_time" \notin DOMAIN response[r]

C3_Witness ==
    \E r, s \in Requests :
        /\ outcome[r].kind = "create_raised"
        /\ outcome[s].kind = "raised"
        /\ outcome[s].value = << "rate", " ", "limit" >>
        /\ response[r].status_code = 500
        /\ response[s].status_code = 500

\* C4: a built crew has exactly one agent per role of the 7-role list, in the
\* declared order, each a distinct object, whatever the production name.
C4_OneAgentPerRoleInOrder ==
    \A r \in Requests :
        pc[r] = "awaiting" =>
            LET agents == crew[r].agents
            IN  /\ Len(agents) = 7
                /\ [ i \in 1..Len(agents) |-> agents[i].role ] =
                      << "Composer + Lyricist", "Book", "Director", "Choreographer",
                         "Set/Visual", "Dramaturg", "Market/Producer" >>
                /\ \A i, j \in 1..Len(agents) :
                      agents[i].id = agents[j].id => i = j

C4_Witness ==
    \E r, s \in Requests :
        /\ pc[r] = "awaiting"
        /\ pc[s] = "awaiting"
        /\ CrewRequest(body[r]).production_name = <<>>
        /\ CrewRequest(body[s]).production_name = << "Test", " ", "Show" >>
        /\ Len(crew[r].agents) = 7
        /\ Len(crew[s].agents) = 7

RECURSIVE TasksBefore(_)
\* the number of task templates of the roles before the i-th
TasksBefore(i) ==
    IF i <= 1 THEN 0
    ELSE TasksBefore(i - 1) + Len(task_templates[roles[i - 1]])

\* C5: in a built crew the tasks are, role by role in role order, the role's
\* templates in declared order, each bound to the agent built for that role
\* in the same call; 21 tasks in all, every task's agent one of the crew's.
C5_TasksFollowTemplates ==
    \A r \in Requests :
        pc[r] = "awaiting" =>
            LET agents == crew[r].agents
                tasks == crew[r].tasks
            IN  /\ Len(tasks) = 21
                /\ Len(tasks) = TasksBefore(Len(roles) + 1)
                /\ \A i \in 1..Len(roles) :
                      \A j \in 1..Len(task_templates[roles[i]]) :
                          LET t == tasks[TasksBefore(i) + j]
                              template == task_templates[roles[i]][j]
                          IN  /\ t.description = template[1]
                              /\ t.expected_output = template[2]
                              /\ t.agent = agents[i].id
                /\ \A k \in 1..Len(tasks) :
                      \E i \in 1..Len(agents) : tasks[k].agent = agents[i].id

C5_Witness ==
    \E r \in Requests :
        /\ pc[r] = "awaiting"
        /\ Len(crew[r].tasks) = 21
        /\ crew[r].tasks[21].description = "Marketing strategy"
        /\ crew[r].tasks[21].agent = crew[r].agents[7].id
        /\ crew[r].tasks[4].description = "Draft storyline"

\* C6: GET / can be answered in every state, and every answer it has given
\* has status "ok", whatever the environment and the requests' states.
C6_HealthAlwaysOk ==
    /\ ENABLED Root
    /\ health.served => health.response.status = "ok"

C6_Witness ==
    /\ health.served
    /\ \E r, s \in Requests :
          /\ pc[r] = "awaiting"
          /\ pc[s] = "done"
          /\ response[s].status_code = 500

\* C7 as stated: a request whose production_name is the empty string is not
\* accepted: no roster is built and the engine is not invoked for it.
C7_EmptyNameRejected ==
    \A r \in Requests :
        (body[r].production_name.present /\ body[r].production_name.value = <<>>) =>
            /\ ~Called(r, "create_musical_theater_crew")
            /\ ~Called(r, "kickoff_async")

\* C7 amended: once the key check passed, a request without production_name
\* is answered 422 with no roster built and no engine run, and a request
\* whose production_name is text, the empty string included, is accepted:
\* roster construction is called for it.
C7_OnlyPresenceIsValidated ==
    [][ \A r \in Requests :
          (pc[r] = "deps" /\ pc'[r] # "deps" /\ KeyUsable) =>
              IF body[r].production_name.present
              THEN Called(r, "create_musical_theater_crew")'
              ELSE /\ response'[r].status_code = 422
                   /\ calls'[r] = << "verify_api_keys" >>
                   /\ crew'[r] = NoCrew
                   /\ pc'[r] = "done" ]_vars

C7_Witness ==
    \E r \in Requests :
        /\ pc[r] = "awaiting"
        /\ body[r].production_name.present
        /\ body[r].production_name.value = <<>>
        /\ Called(r, "kickoff_async")
        /\ Len(crew[r].agents) = 7

\* C8 as stated: the input mapping handed to the engine maps production_name
\* to the request's production_name field, for every additional_context.
C8_InputsCarryRequestName ==
    \A r \in Requests :
        pc[r] = "awaiting" =>
            /\ MappingHas(inputs[r], "production_name")
            /\ MappingGet(inputs[r], "production_name") =
                  CrewRequest(body[r]).production_name

\* the identities of the objects a crew holds
ObjectIds(c) ==
    { c.agents[i].id : i \in 1..Len(c.agents) } \cup
    { c.tasks[k].id : k \in 1..Len(c.tasks) }

\* what the model keeps for one request
RequestState(r) ==
    << pc[r], body[r], calls[r], crew[r], start_time[r], inputs[r],
       outcome[r], response[r] >>

\* C9: a request suspended on its run blocks no other request and no health
\* check, nothing caps the runs in flight, two in-flight requests share no
\* agent or task object, and a step of one request leaves every other
\* request's state as it was.
C9_RequestsAreIndependent ==
    /\ []((\E r \in Requests : pc[r] = "awaiting") => ENABLED Root)
    /\ [](\A s \in Requests :
            (\E r \in Requests \ { s } : pc[r] = "awaiting") =>
                /\ pc[s] = "idle" => ENABLED (\E json \in JsonBodies : Receive(s, json))
                /\ pc[s] = "deps" =>
                      ENABLED (MissingKeyError(s) \/ RejectBody(s) \/ TriggerCrewStart(s))
                /\ pc[s] = "awaiting" =>
                      ENABLED (\E result \in EngineResults : EngineReturns(s, result)))
    /\ [](\A r, s \in Requests :
            (r < s /\ pc[r] = "awaiting" /\ pc[s] = "awaiting") =>
                ObjectIds(crew[r]) \cap ObjectIds(crew[s]) = {})
    /\ [][ \A r, s \in Requests :
              (r # s /\ RequestState(r)' # RequestState(r)) =>
                  RequestState(s)' = RequestState(s) ]_vars

C9_Witness ==
    /\ \A r \in Requests : pc[r] = "awaiting"
    /\ \A r, s \in Requests :
          r # s => ObjectIds(crew[r]) \cap ObjectIds(crew[s]) = {}
    /\ health.served

\* C10: kickoff_async is called at most once per request, after
\* verify_api_keys and create_musical_theater_crew; a request leaves its
\* await only when the run returns or raises, a raise leads straight to the
\* 500 with no further call, and a finished request stays finished.
C10_OneRunNoRetryNoCancel ==
    /\ [](\A r \in Requests :
            /\ Count(calls[r], "kickoff_async") <= 1
            /\ Called(r, "kickoff_async") =>
                  calls[r] = << "verify_api_keys", "create_musical_theater_crew",
                                "kickoff_async" >>)
    /\ [][ \A r \in Requests :
              /\ (pc[r] = "awaiting" /\ pc'[r] # "awaiting") =>
                    /\ pc'[r] = "done"
                    /\ outcome'[r].kind \in { "returned", "raised" }
                    /\ calls'[r] = calls[r]
                    /\ outcome'[r].kind = "raised" => response'[r].status_code = 500
              /\ (pc[r] = "awaiting" /\ pc'[r] = "awaiting") =>
                    RequestState(r)' = RequestState(r)
              /\ pc[r] = "done" =>
                    /\ pc'[r] = "done"
                    /\ calls'[r] = calls[r]
                    /\ response'[r] = response[r] ]_vars

C10_Witness ==
    \E r \in Requests :
        /\ pc[r] = "done"
        /\ outcome[r].kind = "raised"
        /\ Count(calls[r], "kickoff_async") = 1
        /\ response[r].status_code = 500

====
